---- MODULE Spec2Model ----
(***************************************************************************)
(* useEthers (packages/core hooks): the connection facade of useDApp.      *)
(* The model follows one mounted instance of the hook: its render, its     *)
(* chain-validity effect, and the asynchronous switchNetwork and activate  *)
(* callbacks it returns.                                                   *)
(***************************************************************************)
EXTENDS Integers, Sequences, FiniteSets, TLC

\* ---------------------------------------------------------------- bounds
\* Chain ids are positive integers 1..MaxChainId.
MaxChainId == 2
\* Longest externally reported error list (network.errors).
MaxErrors == 2
\* A chain id outside every configuration, as a switchNetwork target.
ForeignChainId == 137

\* ------------------------------------------------------------- constants
\* JavaScript `undefined` for a number-typed slot.
Undef == -1
\* Metamask error code: chain not added yet.
errChainNotAddedYet == 4902
\* Some other error code a wallet may reject a request with.
OtherErrorCode == 4001

ChainIds == 1..MaxChainId

\* ------------------------------------------------------ values and types
\* Provider handles, by the object they are: the active connector's
\* provider, the read-only network's provider, or undefined.
NoProvider == "none"
ConnectorProvider == "connector"
ReadonlyProvider == "readonly"

\* The active connector of ConnectorContext (undefined when absent).
NoConnector == [present |-> FALSE, chainId |-> Undef, provider |-> NoProvider]
Connectors ==
    { [present |-> TRUE, chainId |-> c, provider |-> p] :
        c \in ChainIds \cup {Undef}, p \in {ConnectorProvider, NoProvider} }

\* useReadonlyNetwork(): undefined, or a provider and a chain id.
NoReadonlyNetwork == [present |-> FALSE, provider |-> NoProvider, chainId |-> Undef]
ReadonlyNetwork(c) == [present |-> TRUE, provider |-> ReadonlyProvider, chainId |-> c]

\* Error values: undefined, an externally reported Error, or the locally
\* synthesized ChainIdError with message `${kind} chain id: ${chainId}.`
\* Every reported Error is an object of its own, told apart by the order in
\* which the collaborator reported it (seq).
NoError == [name |-> "undefined", kind |-> "", chainId |-> Undef, seq |-> 0]
ExternalError(n) == [name |-> "Error", kind |-> "", chainId |-> Undef, seq |-> n]
ChainIdError(kind, chainId) ==
    [name |-> "ChainIdError", kind |-> kind, chainId |-> chainId, seq |-> 0]

\* JavaScript truthiness of a number-or-undefined value.
Truthy(n) == n # Undef /\ n # 0

\* -------------------------------------------------- string conversions
\* Strings of digits are sequences of digit values.
RECURSIVE NumToString(_, _)
NumToString(n, radix) ==
    IF n < radix THEN <<n>>
    ELSE Append(NumToString(n \div radix, radix), n % radix)

RECURSIVE ParseInt(_, _)
ParseInt(s, radix) ==
    IF Len(s) = 0 THEN 0
    ELSE ParseInt(SubSeq(s, 1, Len(s) - 1), radix) * radix + s[Len(s)]

\* ---------------------------------------------------------------- state
VARIABLES
    networks,         \* useConfig().networks
    readOnlyUrls,     \* useConfig().readOnlyUrls
    readonlyNetwork,  \* useReadonlyNetwork()
    sendCapable,      \* the provider objects that have a `send` member
    activeConnector,  \* ConnectorContext.activeConnector
    errors,           \* useNetwork().network.errors
    error,            \* useState: error
    view,             \* the object returned by the last render
    closure,          \* chainId and errors captured by the last render
    deps,             \* dependency values of the last effect run
    pending,          \* a render is scheduled
    effects,          \* the committed render's effects are not flushed yet
    sw,               \* the last switchNetwork call
    act               \* the last activate call

hookVars == <<activeConnector, errors, error, view, closure, deps, pending, effects>>
configVars == <<networks, readOnlyUrls, readonlyNetwork, sendCapable>>
vars == <<networks, readOnlyUrls, readonlyNetwork, sendCapable, activeConnector,
          errors, error, view, closure, deps, pending, effects, sw, act>>

\* networks: undefined, or a list of chains.
NetworksUndefined == [defined |-> FALSE, list |-> <<>>]
Chain(c, rpc) == [chainId |-> c, rpcUrl |-> rpc]
NoChain == [chainId |-> Undef, rpcUrl |-> FALSE]

\* The network lists of the chains 1..k, k <= n, one entry per chain; rpcUrl
\* is TRUE when the chain carries an rpcUrl.  The hook treats all chain ids
\* alike, so the supported chains are taken to be the first k.
RECURSIVE NetworkLists(_, _)
NetworkLists(n, rpcs) ==
    IF n = 0 THEN { <<>> }
    ELSE LET shorter == NetworkLists(n - 1, rpcs)
         IN shorter \cup
            { Append(l, Chain(n, rpc)) : l \in { x \in shorter : Len(x) = n - 1 },
                                        rpc \in rpcs }

NetworksConfigs(rpcs) ==
    {NetworksUndefined} \cup
    { [defined |-> TRUE, list |-> l] : l \in NetworkLists(MaxChainId, rpcs) }

\* readOnlyUrls: undefined, or an object whose keys are chain ids; a number
\* key is stored as its decimal string.
ReadOnlyUrlsUndefined == [defined |-> FALSE, keys |-> {}]
ReadOnlyUrlsConfigs ==
    {ReadOnlyUrlsUndefined} \cup
    { [defined |-> TRUE, keys |-> { NumToString(c, 10) : c \in S }] :
        S \in SUBSET ChainIds }

\* The read-only networks a configuration can yield: none, or the network
\* of one of the chains that readOnlyUrls has a URL for.
ReadonlyNetworks(urls) ==
    {NoReadonlyNetwork} \cup
    { ReadonlyNetwork(c) : c \in { d \in ChainIds : NumToString(d, 10) \in urls.keys } }

\* ------------------------------------------------------ derived per render
\* Object.keys(readOnlyUrls || {}).map((chainId) => parseInt(chainId, 10))
configuredChainIds ==
    { ParseInt(k, 10) :
        k \in (IF readOnlyUrls.defined THEN readOnlyUrls.keys ELSE {}) }

\* networks?.map((network) => network.chainId): undefined iff networks is.
supportedDefined == networks.defined
supportedChainIds ==
    { networks.list[i].chainId : i \in 1..Len(networks.list) }

\* Variant: errors[0], the oldest reported error.
LastError_First(errs) == IF Len(errs) = 0 THEN NoError ELSE errs[1]

\* errors[errors.length - 1]
LastError(errs) == IF Len(errs) = 0 THEN NoError ELSE errs[Len(errs)]

\* Variant: a missing readOnlyUrls mapping raises nothing.
isNotConfiguredChainId_Guarded(chainId) ==
    Truthy(chainId) /\ readOnlyUrls.defined /\ chainId \notin configuredChainIds

\* chainId && configuredChainIds && configuredChainIds.indexOf(chainId) < 0
\* (configuredChainIds is an array, always truthy)
isNotConfiguredChainId(chainId) ==
    Truthy(chainId) /\ chainId \notin configuredChainIds

\* chainId && supportedChainIds && supportedChainIds.indexOf(chainId) < 0
isUnsupportedChainId(chainId) ==
    Truthy(chainId) /\ supportedDefined /\ chainId \notin supportedChainIds

\* Variant: an externally reported error wins over the chain-id error.
EffectError_ExternalFirst(chainId, errs) ==
    IF Len(errs) > 0 THEN errs[Len(errs)]
    ELSE IF isUnsupportedChainId(chainId) \/ isNotConfiguredChainId(chainId)
    THEN ChainIdError(IF isUnsupportedChainId(chainId)
                      THEN "Unsupported" ELSE "Not configured", chainId)
    ELSE NoError

\* The body of the chain-validity effect: the value handed to setError.
EffectError(chainId, errs) ==
    LET chainIdError ==
            ChainIdError(IF isUnsupportedChainId(chainId)
                         THEN "Unsupported" ELSE "Not configured", chainId)
    IN IF isUnsupportedChainId(chainId) \/ isNotConfiguredChainId(chainId)
       THEN chainIdError
       ELSE LastError(errs)

\* Variant: the connector's chainId is exposed even when error is set.
ResolveProvider_NoMask(conn, err, ro) ==
    IF conn.present /\ conn.provider # NoProvider
    THEN [provider |-> conn.provider, chainId |-> conn.chainId]
    ELSE [provider |-> ro.provider, chainId |-> ro.chainId]

\* Variant: error masks the chainId of the read-only fallback too.
ResolveProvider_FallbackMasked(conn, err, ro) ==
    IF conn.present /\ conn.provider # NoProvider
    THEN [provider |-> conn.provider,
          chainId |-> IF err # NoError THEN Undef ELSE conn.chainId]
    ELSE [provider |-> ro.provider,
          chainId |-> IF err # NoError THEN Undef ELSE ro.chainId]

\* provider / chainId resolution of a render.
ResolveProvider(conn, err, ro) ==
    IF conn.present /\ conn.provider # NoProvider
    THEN [provider |-> conn.provider,
          chainId |-> IF err # NoError THEN Undef ELSE conn.chainId]
    ELSE [provider |-> ro.provider, chainId |-> ro.chainId]

NoView ==
    [rendered |-> FALSE, provider |-> NoProvider, chainId |-> Undef,
     error |-> NoError, active |-> FALSE]
NoClosure == [chainId |-> Undef, errors |-> <<>>]
NoDeps == [ran |-> FALSE, chainId |-> Undef, errors |-> <<>>]

\* A reply of provider.send: fulfilled, or rejected with an error code.
NoReply == [arrived |-> FALSE, ok |-> FALSE, code |-> 0]
Fulfilled == [arrived |-> TRUE, ok |-> TRUE, code |-> 0]
Rejected(code) == [arrived |-> TRUE, ok |-> FALSE, code |-> code]

\* Arguments a caller may hand to switchNetwork: a number, or some other
\* JavaScript value.
NumberArg(n) == [type |-> "number", value |-> n]
NoArg == [type |-> "undefined", value |-> Undef]
SwitchArgs ==
    { NumberArg(n) : n \in ChainIds \cup {ForeignChainId} }
        \cup { [type |-> "string", value |-> 1] }

\* The last switchNetwork call: where it stands, the provider it closed
\* over, the RPC requests it has sent, and how its promise settled.
SwIdle ==
    [pc |-> "idle", arg |-> NoArg, provider |-> NoProvider, log |-> <<>>,
     switchReply |-> NoReply, addReply |-> NoReply, result |-> "none"]

\* Values handed to activate: a legacy connector (has getProvider and
\* activate), a raw provider, or a connector tag.
ActivateInputs ==
    { [kind |-> k, id |-> i] : k \in {"legacy", "provider", "tag"}, i \in {"a", "b"} }
NoInput == [kind |-> "undefined", id |-> ""]
\* What a legacy connector's getProvider() may yield.
YieldedProviders == { [kind |-> "provider", id |-> i] : i \in {"a", "b"} } \cup {NoInput}

\* The last activate call: where it stands, its input, the calls it has
\* made in order, whether the legacy activate() failed, how it settled.
ActIdle ==
    [pc |-> "idle", input |-> NoInput, log |-> <<>>, legacyFailed |-> FALSE,
     yielded |-> NoInput, result |-> "none"]

\* ----------------------------------------------------------------- Init
\* The hook is about to mount: nothing rendered, error state undefined.
InitHook ==
    /\ activeConnector = NoConnector
    /\ errors = <<>>
    /\ error = NoError
    /\ view = NoView
    /\ closure = NoClosure
    /\ deps = NoDeps
    /\ pending = TRUE
    /\ effects = FALSE
    /\ sw = SwIdle
    /\ act = ActIdle

Init ==
    /\ networks \in NetworksConfigs({TRUE})
    /\ readOnlyUrls \in ReadOnlyUrlsConfigs
    /\ readonlyNetwork \in ReadonlyNetworks(readOnlyUrls)
    /\ sendCapable = {ConnectorProvider, ReadonlyProvider}
    /\ InitHook

\* ------------------------------------------------- environment (context)
\* Each context change schedules a render of the hook.

\* The connector registry makes `conn` the active connector.
SetActiveConnector(conn) ==
    /\ activeConnector # conn
    /\ activeConnector' = conn
    /\ pending' = TRUE
    /\ UNCHANGED <<errors, error, view, closure, deps, effects>>
    /\ UNCHANGED <<configVars, sw, act>>

\* The active connector reports an Update {chainId, accounts}.
OnUpdate(chainId) ==
    /\ activeConnector.present
    /\ activeConnector.chainId # chainId
    /\ activeConnector' = [activeConnector EXCEPT !.chainId = chainId]
    /\ pending' = TRUE
    /\ UNCHANGED <<errors, error, view, closure, deps, effects>>
    /\ UNCHANGED <<configVars, sw, act>>

\* The registry drops the active connector.
ClearActiveConnector ==
    /\ activeConnector.present
    /\ activeConnector' = NoConnector
    /\ pending' = TRUE
    /\ UNCHANGED <<errors, error, view, closure, deps, effects>>
    /\ UNCHANGED <<configVars, sw, act>>

\* The network-state collaborator records one more error.
AddError ==
    /\ Len(errors) < MaxErrors
    /\ errors' = Append(errors, ExternalError(Len(errors) + 1))
    /\ pending' = TRUE
    /\ UNCHANGED <<activeConnector, error, view, closure, deps, effects>>
    /\ UNCHANGED <<configVars, sw, act>>

\* ------------------------------------------------------------- the hook
\* One call of useEthers(): resolves provider and chainId from the current
\* context and the current error state, and returns the view.  The effects
\* of the previous render are flushed before the next render starts.
Render ==
    /\ pending
    /\ ~effects
    /\ LET r == ResolveProvider(activeConnector, error, readonlyNetwork)
       IN view' = [rendered |-> TRUE, provider |-> r.provider,
                   chainId |-> r.chainId, error |-> error,
                   active |-> activeConnector.present]
    /\ closure' = [chainId |-> activeConnector.chainId, errors |-> errors]
    /\ pending' = FALSE
    /\ effects' = TRUE
    /\ UNCHANGED <<activeConnector, errors, error, deps>>
    /\ UNCHANGED <<configVars, sw, act>>

\* Dependencies [activeConnector?.chainId, errors] of the committed render
\* differ from those of the last effect run (always so on mount).
DepsChanged ==
    \/ ~deps.ran
    \/ deps.chainId # closure.chainId
    \/ deps.errors # closure.errors

\* The chain-validity effect runs with the values its render captured;
\* setError with a value other than the current one schedules a render (a
\* ChainIdError is a fresh object each time).
RunEffect ==
    /\ effects
    /\ DepsChanged
    /\ error' = EffectError(closure.chainId, closure.errors)
    /\ deps' = [ran |-> TRUE, chainId |-> closure.chainId,
                errors |-> closure.errors]
    /\ pending' = (pending \/ error' # error \/ error'.name = "ChainIdError")
    /\ effects' = FALSE
    /\ UNCHANGED <<activeConnector, errors, view, closure>>
    /\ UNCHANGED <<configVars, sw, act>>

\* The committed render left the dependencies as they were: no effect runs.
SkipEffect ==
    /\ effects
    /\ ~DepsChanged
    /\ effects' = FALSE
    /\ UNCHANGED <<activeConnector, errors, error, view, closure, deps, pending>>
    /\ UNCHANGED <<configVars, sw, act>>

Next ==
    \/ \E conn \in Connectors : SetActiveConnector(conn)
    \/ \E c \in ChainIds : OnUpdate(c)
    \/ ClearActiveConnector
    \/ AddError
    \/ Render
    \/ RunEffect
    \/ SkipEffect

\* The hook under every context change.  rpcUrl and `send` are read by
\* switchNetwork only, so every chain carries an rpcUrl and both providers
\* have `send` here.
Spec == Init /\ [][Next]_vars

\* -------------------------------------------------------- switchNetwork
\* validateArguments({ chainId }, { chainId: 'number' })
ValidateArguments(arg) == arg.type = "number"

\* Variant: only a missing provider counts as not connected.
NotConnected_MissingOnly(provider) == provider = NoProvider

\* !provider || !('send' in provider)
NotConnected(provider) == provider = NoProvider \/ provider \notin sendCapable

\* networks?.find((chain) => chain.chainId === chainId)
FindChain(chainId) ==
    LET hits == { i \in 1..Len(networks.list) : networks.list[i].chainId = chainId }
    IN IF ~networks.defined \/ hits = {} THEN NoChain
       ELSE networks.list[CHOOSE i \in hits : \A j \in hits : i <= j]

\* [{ chainId: `0x${chainId.toString(16)}` }]
SwitchRequest(chainId) ==
    [method |-> "wallet_switchEthereumChain", chainId |-> NumToString(chainId, 16)]

\* [getAddNetworkParams(chain)]
AddRequest(chain) ==
    [method |-> "wallet_addEthereumChain", chainId |-> NumToString(chain.chainId, 16)]

InFlight(call) == call.pc \notin {"idle", "resolved", "rejected"}

\* switchNetwork(arg) up to its first await, with the provider of the last
\* render.
SwitchNetworkCall(arg) ==
    /\ view.rendered
    /\ ~InFlight(sw)
    /\ sw' =
        LET call == [SwIdle EXCEPT !.arg = arg, !.provider = view.provider]
        IN IF ~ValidateArguments(arg)
           THEN [call EXCEPT !.pc = "rejected", !.result = "ArgumentError"]
           ELSE IF NotConnected(view.provider)
           THEN [call EXCEPT !.pc = "rejected", !.result = "Provider not connected."]
           ELSE [call EXCEPT !.pc = "awaitSwitch",
                             !.log = <<SwitchRequest(arg.value)>>]
    /\ UNCHANGED <<configVars, hookVars, act>>

\* Variant: the add-chain follow-up is sent after any switch failure.
SwitchReply_AnyCode(reply) ==
    /\ sw.pc = "awaitSwitch"
    /\ sw' =
        LET got == [sw EXCEPT !.switchReply = reply]
            chain == FindChain(sw.arg.value)
        IN IF reply.ok
           THEN [got EXCEPT !.pc = "resolved", !.result = "undefined"]
           ELSE IF chain # NoChain /\ chain.rpcUrl
           THEN [got EXCEPT !.pc = "awaitAdd", !.log = Append(sw.log, AddRequest(chain))]
           ELSE [got EXCEPT !.pc = "resolved", !.result = "undefined"]
    /\ UNCHANGED <<configVars, hookVars, act>>

\* The wallet_switchEthereumChain request settles; the catch block runs on
\* rejection.
SwitchReply(reply) ==
    /\ sw.pc = "awaitSwitch"
    /\ sw' =
        LET got == [sw EXCEPT !.switchReply = reply]
            chain == FindChain(sw.arg.value)
        IN IF reply.ok
           THEN [got EXCEPT !.pc = "resolved", !.result = "undefined"]
           ELSE IF reply.code = errChainNotAddedYet /\ chain # NoChain /\ chain.rpcUrl
           THEN [got EXCEPT !.pc = "awaitAdd", !.log = Append(sw.log, AddRequest(chain))]
           ELSE [got EXCEPT !.pc = "resolved", !.result = "undefined"]
    /\ UNCHANGED <<configVars, hookVars, act>>

\* Variant: the add-chain request is awaited inside its own try/catch.
AddReply_Absorbed(reply) ==
    /\ sw.pc = "awaitAdd"
    /\ sw' = [sw EXCEPT !.addReply = reply, !.pc = "resolved", !.result = "undefined"]
    /\ UNCHANGED <<configVars, hookVars, act>>

\* The wallet_addEthereumChain request settles; it is awaited inside the
\* catch block, outside any try.
AddReply(reply) ==
    /\ sw.pc = "awaitAdd"
    /\ sw' =
        LET got == [sw EXCEPT !.addReply = reply]
        IN IF reply.ok
           THEN [got EXCEPT !.pc = "resolved", !.result = "undefined"]
           ELSE [got EXCEPT !.pc = "rejected", !.result = "AddChainError"]
    /\ UNCHANGED <<configVars, hookVars, act>>

SwitchReplies == {Fulfilled, Rejected(errChainNotAddedYet), Rejected(OtherErrorCode)}
AddReplies == {Fulfilled, Rejected(OtherErrorCode)}

\* switchNetwork reads networks, the rendered provider and its `send`; the
\* read-only URLs are those of chain 1.  The read-only provider is a
\* JsonRpcProvider and has `send`; a connector's provider may lack it.
InitSwitch ==
    /\ networks \in NetworksConfigs(BOOLEAN)
    /\ readOnlyUrls = [defined |-> TRUE, keys |-> { NumToString(1, 10) }]
    /\ readonlyNetwork \in ReadonlyNetworks(readOnlyUrls)
    /\ sendCapable \in {{ReadonlyProvider}, {ReadonlyProvider, ConnectorProvider}}
    /\ InitHook

NextSwitch ==
    \/ \E conn \in Connectors : SetActiveConnector(conn)
    \/ ClearActiveConnector
    \/ Render
    \/ RunEffect
    \/ SkipEffect
    \/ \E arg \in SwitchArgs : SwitchNetworkCall(arg)
    \/ \E reply \in SwitchReplies : SwitchReply(reply)
    \/ \E reply \in AddReplies : AddReply(reply)

\* switchNetwork calls against the hook, one call in flight at a time.
SpecSwitch == InitSwitch /\ [][NextSwitch]_vars

\* -------------------------------------------------------------- activate
LegacyActivateCall(input) == [call |-> "legacy.activate", arg |-> input]
GetProviderCall(input) == [call |-> "legacy.getProvider", arg |-> input]
NetworkActivateCall(arg) == [call |-> "network.activate", arg |-> arg]

\* activate(providerOrConnector) up to its first await.
ActivateCall(input) ==
    /\ view.rendered
    /\ ~InFlight(act)
    /\ act' =
        LET call == [ActIdle EXCEPT !.input = input]
        IN IF input.kind = "legacy"
           THEN [call EXCEPT !.pc = "awaitLegacyActivate",
                             !.log = <<LegacyActivateCall(input)>>]
           ELSE [call EXCEPT !.pc = "awaitNetworkActivate",
                             !.log = <<NetworkActivateCall(input)>>]
    /\ UNCHANGED <<configVars, hookVars, sw>>

\* Variant: a rejection of the legacy activate() is not caught.
LegacyActivateReply_Propagates(ok) ==
    /\ act.pc = "awaitLegacyActivate"
    /\ act' = IF ok
              THEN [act EXCEPT !.pc = "awaitGetProvider",
                               !.log = Append(act.log, GetProviderCall(act.input))]
              ELSE [act EXCEPT !.pc = "rejected", !.legacyFailed = TRUE,
                               !.result = "LegacyActivateError"]
    /\ UNCHANGED <<configVars, hookVars, sw>>

\* providerOrConnector.activate() settles; a rejection is logged and
\* dropped, then getProvider() is called.
LegacyActivateReply(ok) ==
    /\ act.pc = "awaitLegacyActivate"
    /\ act' = [act EXCEPT !.pc = "awaitGetProvider",
                          !.legacyFailed = ~ok,
                          !.log = Append(act.log, GetProviderCall(act.input))]
    /\ UNCHANGED <<configVars, hookVars, sw>>

\* getProvider() yields a provider (or undefined), which goes to the
\* collaborator's activate.
GetProviderYield(provider) ==
    /\ act.pc = "awaitGetProvider"
    /\ act' = [act EXCEPT !.pc = "awaitNetworkActivate",
                          !.yielded = provider,
                          !.log = Append(act.log, NetworkActivateCall(provider))]
    /\ UNCHANGED <<configVars, hookVars, sw>>

\* getProvider() fails: the await throws out of activate.
GetProviderFail ==
    /\ act.pc = "awaitGetProvider"
    /\ act' = [act EXCEPT !.pc = "rejected", !.result = "GetProviderError"]
    /\ UNCHANGED <<configVars, hookVars, sw>>

\* The collaborator's activate settles and settles the returned promise.
NetworkActivateReply(ok) ==
    /\ act.pc = "awaitNetworkActivate"
    /\ act' = IF ok THEN [act EXCEPT !.pc = "resolved", !.result = "undefined"]
              ELSE [act EXCEPT !.pc = "rejected", !.result = "NetworkActivateError"]
    /\ UNCHANGED <<configVars, hookVars, sw>>

\* activate reads nothing of the configuration.
InitActivate ==
    /\ networks \in {NetworksUndefined}
    /\ readOnlyUrls = [defined |-> TRUE, keys |-> { NumToString(c, 10) : c \in ChainIds }]
    /\ readonlyNetwork \in ReadonlyNetworks(readOnlyUrls)
    /\ sendCapable = {ConnectorProvider, ReadonlyProvider}
    /\ InitHook

NextActivate ==
    \/ \E conn \in Connectors : SetActiveConnector(conn)
    \/ ClearActiveConnector
    \/ Render
    \/ RunEffect
    \/ SkipEffect
    \/ \E input \in ActivateInputs : ActivateCall(input)
    \/ \E ok \in BOOLEAN : LegacyActivateReply(ok)
    \/ \E provider \in YieldedProviders : GetProviderYield(provider)
    \/ GetProviderFail
    \/ \E ok \in BOOLEAN : NetworkActivateReply(ok)

\* activate calls against the hook, one call in flight at a time.
SpecActivate == InitActivate /\ [][NextActivate]_vars

\* ============================================================ properties
\* The chain-validity effect has run for the current dependencies.
EffectCurrent ==
    /\ deps.ran
    /\ deps.chainId = activeConnector.chainId
    /\ deps.errors = errors

\* Nothing has changed since the last render: the view is the one the hook
\* returns for the current state.
ViewCurrent == view.rendered /\ ~pending

\* Membership of a chain id in the two configured sets, read off the
\* configuration itself.
InSupportedNetworks(c) ==
    networks.defined /\ \E i \in 1..Len(networks.list) : networks.list[i].chainId = c
AbsentFromSupportedNetworks(c) == networks.defined /\ ~InSupportedNetworks(c)
InReadOnlyUrls(c) == readOnlyUrls.defined /\ NumToString(c, 10) \in readOnlyUrls.keys
AbsentFromReadOnlyUrls(c) == readOnlyUrls.defined /\ ~InReadOnlyUrls(c)

\* C1: once the effect has run for the current chainId and error list, a
\* defined chainId absent from the supported networks or from the read-only
\* URLs makes `error` the ChainIdError, 'Unsupported' when absent from the
\* supported networks and 'Not configured' otherwise, whatever the external
\* error list holds; the view shows it as soon as it is rendered.
C1_ChainIdErrorPrecedence ==
    LET c == activeConnector.chainId
    IN (EffectCurrent /\ c # Undef
        /\ (AbsentFromSupportedNetworks(c) \/ AbsentFromReadOnlyUrls(c)))
       => /\ error = ChainIdError(IF AbsentFromSupportedNetworks(c)
                                  THEN "Unsupported" ELSE "Not configured", c)
          /\ (ViewCurrent => view.error = error)

C1_Witness ==
    /\ EffectCurrent
    /\ ViewCurrent
    /\ Len(errors) > 0
    /\ AbsentFromSupportedNetworks(activeConnector.chainId)
    /\ activeConnector.chainId # Undef
    /\ view.error = ChainIdError("Unsupported", activeConnector.chainId)

\* C2: once the effect has run for the current chainId and error list, a
\* chainId present in both configured sets leaves `error` equal to the last
\* externally reported error, undefined when there is none.
C2_LastExternalError ==
    LET c == activeConnector.chainId
    IN (EffectCurrent /\ InSupportedNetworks(c) /\ InReadOnlyUrls(c))
       => /\ error = (IF errors = <<>> THEN NoError ELSE errors[Len(errors)])
          /\ (ViewCurrent => view.error = error)

C2_Witness ==
    /\ EffectCurrent
    /\ ViewCurrent
    /\ InSupportedNetworks(activeConnector.chainId)
    /\ InReadOnlyUrls(activeConnector.chainId)
    /\ Len(errors) = 2
    /\ errors[1] # errors[2]
    /\ view.error = errors[2]
    /\ deps.ran

\* C3: in every view of a connector with a live provider, the provider is the
\* connector's, and chainId is undefined when error is set and the
\* connector's chainId when error is unset.
C3_ConnectorProviderView ==
    (ViewCurrent /\ activeConnector.present /\ activeConnector.provider # NoProvider)
    => /\ view.provider = activeConnector.provider
       /\ (view.error # NoError => view.chainId = Undef)
       /\ (view.error = NoError => view.chainId = activeConnector.chainId)

C3_Witness ==
    /\ ViewCurrent
    /\ activeConnector.present
    /\ activeConnector.provider = ConnectorProvider
    /\ activeConnector.chainId # Undef
    /\ view.error # NoError
    /\ view.chainId = Undef
    /\ view.provider = ConnectorProvider

\* C4: in every view without an active connector, or with one that has no
\* live provider, provider and chainId are the read-only network's, whatever
\* error is.
C4_ReadonlyFallback ==
    (ViewCurrent /\ (~activeConnector.present \/ activeConnector.provider = NoProvider))
    => /\ view.provider = readonlyNetwork.provider
       /\ view.chainId = readonlyNetwork.chainId

C4_Witness ==
    /\ ViewCurrent
    /\ activeConnector.present
    /\ activeConnector.provider = NoProvider
    /\ view.error # NoError
    /\ readonlyNetwork.present
    /\ view.chainId = readonlyNetwork.chainId
    /\ view.provider = ReadonlyProvider

\* C5 (as claimed): with no read-only-URL mapping and the chainId in the
\* supported networks, the effect raises no chain-id error and error is the
\* last externally reported error.
C5_Original ==
    LET c == activeConnector.chainId
    IN (EffectCurrent /\ ~readOnlyUrls.defined /\ InSupportedNetworks(c))
       => error = LastError(errors)

\* C5 (amended): an 'Unsupported' error is raised only when the supported
\* networks are defined, but a missing read-only-URL mapping counts as an
\* empty set: with no mapping and the chainId in the supported networks (or
\* no supported networks at all), the effect raises the 'Not configured'
\* ChainIdError, whatever the external error list holds.
C5_MissingUrlsNotConfigured ==
    LET c == activeConnector.chainId
    IN (EffectCurrent /\ c # Undef)
       => /\ (error.kind = "Unsupported" => networks.defined)
          /\ ((~readOnlyUrls.defined /\ ~AbsentFromSupportedNetworks(c))
              => error = ChainIdError("Not configured", c))

C5_Witness ==
    /\ EffectCurrent
    /\ ~readOnlyUrls.defined
    /\ InSupportedNetworks(activeConnector.chainId)
    /\ Len(errors) > 0
    /\ error = ChainIdError("Not configured", activeConnector.chainId)

\* C10: in every view of a connector with a live provider whose chainId is
\* absent from the supported networks or from the read-only URLs, the
\* view's chainId is undefined, also in the render between the chainId
\* change and the next run of the effect.
C10_BadChainNeverExposed ==
    LET c == activeConnector.chainId
    IN (ViewCurrent /\ activeConnector.present
        /\ activeConnector.provider # NoProvider /\ c # Undef
        /\ (AbsentFromSupportedNetworks(c) \/ AbsentFromReadOnlyUrls(c)))
       => view.chainId = Undef

\* The provider a switchNetwork call closed over supports raw RPC send.
SwConnected == sw.provider # NoProvider /\ sw.provider \in sendCapable
SwNumeric == sw.arg.type = "number"

\* C6: switchNetwork(c) without a connected provider that has `send` fails
\* with 'Provider not connected.', issues no RPC request and leaves the
\* hook's state (error, view) as it was.
C6_NotConnectedFailsClean ==
    [][(sw' # sw /\ ~InFlight(sw) /\ sw'.arg.type = "number"
        /\ (view.provider = NoProvider \/ view.provider \notin sendCapable))
       => /\ sw'.pc = "rejected"
          /\ sw'.result = "Provider not connected."
          /\ sw'.log = <<>>
          /\ error' = error
          /\ view' = view
          /\ activeConnector' = activeConnector]_vars

C6_Witness ==
    /\ sw.pc = "rejected"
    /\ sw.result = "Provider not connected."
    /\ sw.provider = ConnectorProvider
    /\ sw.arg = NumberArg(ForeignChainId)
    /\ sw.log = <<>>

\* C7: a switchNetwork(c) call on a provider with send issues the
\* wallet_switchEthereumChain request for c (hex) first and once; it issues
\* wallet_addEthereumChain, once and second, exactly when the switch
\* request failed with code 4902 and the configured networks hold an entry
\* for c with an rpcUrl; never more than two requests.
C7_RpcSequence ==
    (sw.pc # "idle" /\ SwNumeric /\ SwConnected)
    => /\ Len(sw.log) \in {1, 2}
       /\ sw.log[1].method = "wallet_switchEthereumChain"
       /\ ParseInt(sw.log[1].chainId, 16) = sw.arg.value
       /\ (~sw.switchReply.arrived => Len(sw.log) = 1)
       /\ (sw.switchReply.arrived =>
            (Len(sw.log) = 2 <=>
                /\ ~sw.switchReply.ok
                /\ sw.switchReply.code = 4902
                /\ networks.defined
                /\ \E i \in 1..Len(networks.list) :
                      /\ networks.list[i].chainId = sw.arg.value
                      /\ networks.list[i].rpcUrl))
       /\ (Len(sw.log) = 2 => sw.log[2].method = "wallet_addEthereumChain")

C7_Witness ==
    /\ sw.pc = "resolved"
    /\ SwConnected
    /\ Len(sw.log) = 2
    /\ sw.log[1].method = "wallet_switchEthereumChain"
    /\ sw.log[2].method = "wallet_addEthereumChain"
    /\ sw.switchReply.code = 4902

C9_ActivateOrder ==
    /\ (act.pc # "idle" /\ act.input.kind = "legacy") =>
          /\ act.log[1] = [call |-> "legacy.activate", arg |-> act.input]
          /\ (act.pc = "awaitLegacyActivate" => Len(act.log) = 1)
          /\ (act.pc # "awaitLegacyActivate" =>
                /\ Len(act.log) >= 2
                /\ act.log[2] = [call |-> "legacy.getProvider", arg |-> act.input])
          /\ (act.pc = "awaitGetProvider" => Len(act.log) = 2)
          /\ (act.pc \in {"awaitNetworkActivate", "resolved"} =>
                /\ Len(act.log) = 3
                /\ act.log[3] = [call |-> "network.activate", arg |-> act.yielded])
          /\ (act.pc = "rejected" =>
                \/ act.result = "GetProviderError" /\ Len(act.log) = 2
                \/ /\ act.result = "NetworkActivateError"
                   /\ Len(act.log) = 3
                   /\ act.log[3] = [call |-> "network.activate", arg |-> act.yielded])
    /\ (act.pc # "idle" /\ act.input.kind # "legacy") =>
          /\ act.log = << [call |-> "network.activate", arg |-> act.input] >>
          /\ ~act.legacyFailed

C9_Witness ==
    /\ act.pc = "resolved"
    /\ act.input.kind = "legacy"
    /\ act.legacyFailed
    /\ act.yielded = NoInput
    /\ Len(act.log) = 3
====
